---------------------------- MODULE Spec2Model ----------------------------
(***************************************************************************)
(* Model of duct_damper_association.py: the geometry routine               *)
(* point_to_line_distance, the greedy resolver map_dampers_to_ducts, and   *)
(* the call chain main -> process_worksheet -> retrieve_data_from_cks.     *)
(*                                                                         *)
(* Arithmetic.  The source works on floats; the model works on integer     *)
(* coordinates.  A distance is kept as the exact rational SQUARE of the    *)
(* float the source returns, [num, den] with den > 0, and float('inf') is  *)
(* [num |-> 1, den |-> 0]; math.sqrt is monotone, so a comparison of two   *)
(* distances is the comparison of their squares.  Comparisons with         *)
(* line_length = sqrt(line_length_sq) are made exactly by LeqTimesRoot.    *)
(* Where the doubles of the source can decide otherwise than the reals,    *)
(* at a foot exactly on the upper extended bound, the doubles are          *)
(* computed (UpperBoundTieHolds).                                          *)
(*                                                                         *)
(* Identifiers.  Feature ids are record identifiers: pairwise distinct,    *)
(* and never the sentinel 'NA'.  Python indices are 0-based, the model's   *)
(* sequences are 1-based.                                                  *)
(***************************************************************************)
EXTENDS Integers, Sequences, FiniteSets, TLC

VARIABLES
    pc,                      \* position in main / process_worksheet / map_dampers_to_ducts
    cks_ducts,               \* ducts returned by the CKS client
    cks_dampers,             \* dampers returned by the CKS client
    damper_coords,           \* extract_damper_coordinates(dampers)
    duct_coords,             \* extract_duct_coordinates(ducts)
    candidate_pairs,         \* sorted candidate list
    scan_pos,                \* position of the for loop over candidate_pairs
    duct_used,               \* duct_used[duct_idx]
    damper_to_duct_mapping,  \* the dict being built
    pw_outcome,              \* how process_worksheet ended: return value or raised exception
    main_result,             \* what main returned
    g_point, g_start, g_end, \* arguments of one point_to_line_distance call
    g_result,                \* its return value
    l_point, l_line,         \* damper point and duct polyline of one pass of the segment loop
    l_result                 \* min_distance and best_intersection_type after that pass

vars == << pc, cks_ducts, cks_dampers, damper_coords, duct_coords, candidate_pairs,
           scan_pos, duct_used, damper_to_duct_mapping, pw_outcome, main_result,
           g_point, g_start, g_end, g_result, l_point, l_line, l_result >>

progVars == << cks_ducts, cks_dampers, damper_coords, duct_coords, candidate_pairs,
               scan_pos, duct_used, damper_to_duct_mapping, pw_outcome, main_result >>

geomVars == << g_point, g_start, g_end, g_result, l_point, l_line, l_result >>

----------------------------------------------------------------------------
(* Program constants *)

DEFAULT_DISTANCE_THRESHOLD == 13

DUCT_EXTENSION_UNITS == 13

\* main constructs DuctDamperAssociation(distance_threshold=DEFAULT_DISTANCE_THRESHOLD)
distance_threshold == DEFAULT_DISTANCE_THRESHOLD

NA == "NA"

----------------------------------------------------------------------------
(* Bounds of the model *)

MaxDampers == 3

MaxDucts == 2

\* the geometry specification draws its point from (-PtMax..PtMax) x (-PtMax..PtMax)
PtMax == 27

\* the segment-loop specification draws its damper from
\* (-LevelPtMax..LevelPtMax) x (-LevelPtMax..LevelPtMax) and its duct from the
\* polylines of 2..MaxPolyPoints points
LevelPtMax == 15

MaxPolyPoints == 3

\* ids of the records the CKS client returns, by position
DamperIdPool == << "dmp1", "dmp2", "dmp3", "dmp4" >>

DuctIdPool == << "duct1", "duct2", "duct3", "duct4" >>

\* coordinates a damper record may carry; << >> is a record without usable geometry
DamperGeoms == { << >>, <<7, 0>>, <<0, 13>>, <<2, 14>>, <<19, 0>> }

\* coordinate lists a duct record may carry; a list of fewer than 2 points is unusable
DuctGeoms == { << <<0, 0>> >>,
               << <<0, 0>>, <<5, 0>> >>,
               << <<0, 7>>, <<5, 7>> >>,
               << <<0, 0>>, <<5, 0>>, <<5, 9>> >> }

\* end points of the segments the geometry specification draws
SegPts == { <<0, 0>>, <<5, 0>>, <<13, 0>>, <<0, 13>>, <<3, 4>>, <<5, 12>> }

----------------------------------------------------------------------------
(* Exact arithmetic on squared distances *)

Sq(x) == x * x

DistSq(p, q) == Sq(p[1] - q[1]) + Sq(p[2] - q[2])

INF == [num |-> 1, den |-> 0]

\* a < b for two distances
DistLess(a, b) == a.num * b.den < b.num * a.den

\* a <= n for a distance a and a number n >= 0
DistLeqNum(a, n) == a.num <= Sq(n) * a.den

\* a <= b * sqrt(n), for an integer a and b >= 0, n >= 0
LeqTimesRoot(a, b, n) == a <= 0 \/ Sq(a) <= Sq(b) * n

----------------------------------------------------------------------------
(* point_to_line_distance *)

\* t = dot / line_length_sq
ProjDot(point, line_start, line_end) ==
    (point[1] - line_start[1]) * (line_end[1] - line_start[1])
      + (point[2] - line_start[2]) * (line_end[2] - line_start[2])

\* mutant: no special case, the division by line_length_sq = 0 raises
DegenerateResult_Unhandled(point, line_start) ==
    [distance |-> [num |-> 1, den |-> 0], intersection_type |-> "error"]

\* if line_length_sq == 0: distance to the single point, "actual"
DegenerateResult(point, line_start) ==
    [distance |-> [num |-> DistSq(point, line_start), den |-> 1],
     intersection_type |-> "actual"]

\* 0 <= t <= 1
IsActual(dot, line_length_sq) == 0 <= dot /\ dot <= line_length_sq

(* IEEE-754 double evaluation of "t <= 1 + extension_ratio" (lines 56, 59, 60, 69).     *)
(* With integer coordinates, t, extension_ratio and the exact bound differ by far more   *)
(* than a rounding error unless the foot lies exactly on a bound, which needs an integer *)
(* line_length L.  On the lower bound t and -extension_ratio are the same real, -E/L,    *)
(* rounded once: the comparison holds.  On the upper bound t is (L*L + E*L)/(L*L)        *)
(* rounded once, while 1 + extension_ratio is E/L rounded and the sum rounded again: the *)
(* two doubles are computed here bit by bit.  A number is [ip, bits]: its integer part   *)
(* and its binary fraction digits.                                                       *)

\* significand of a double
SIGNIFICAND_BITS == 53

BitLen(n) == IF n = 0 THEN 0 ELSE CHOOSE k \in 1..31 : 2^(k - 1) <= n /\ n < 2^k

\* the first 64 binary fraction digits of r / b, 0 <= r < b < 2^15, and the remainder
\* left over; the long division goes 16 digits at a time
FracBits(r, b) ==
    LET c1 == (r * 65536) \div b
        r1 == (r * 65536) % b
        c2 == (r1 * 65536) \div b
        r2 == (r1 * 65536) % b
        c3 == (r2 * 65536) \div b
        r3 == (r2 * 65536) % b
        c4 == (r3 * 65536) \div b
        r4 == (r3 * 65536) % b
        chunks == << c1, c2, c3, c4 >>
    IN  [bits |-> [i \in 1..64 |->
                     (chunks[((i - 1) \div 16) + 1] \div 2^(15 - ((i - 1) % 16))) % 2],
         rem |-> r4]

LeadingZeros(bits) ==
    IF \A i \in 1..Len(bits) : bits[i] = 0
    THEN Len(bits)
    ELSE (CHOOSE i \in 1..Len(bits) : bits[i] = 1 /\ \A j \in 1..(i - 1) : bits[j] = 0) - 1

\* the fraction digits a double keeps of ip + 0.bits
KeptBits(ip, bits) ==
    IF ip > 0 THEN SIGNIFICAND_BITS - BitLen(ip) ELSE LeadingZeros(bits) + SIGNIFICAND_BITS

\* x plus one unit of its last fraction digit
Increment(x) ==
    LET zeros == {i \in 1..Len(x.bits) : x.bits[i] = 0}
    IN  IF zeros = {}
        THEN [ip |-> x.ip + 1, bits |-> [i \in 1..Len(x.bits) |-> 0]]
        ELSE LET p == CHOOSE i \in zeros : \A j \in zeros : j <= i
             IN  [ip |-> x.ip,
                  bits |-> [i \in 1..Len(x.bits) |->
                               IF i < p THEN x.bits[i] ELSE IF i = p THEN 1 ELSE 0]]

\* round to nearest, ties to even, of ip + 0.bits + tail, the tail non-zero iff rem # 0
RoundToDouble(ip, bits, rem) ==
    LET keep == KeptBits(ip, bits)
        digit(i) == IF i <= Len(bits) THEN bits[i] ELSE 0
        sticky == rem # 0 \/ \E i \in (keep + 2)..Len(bits) : bits[i] = 1
        trunc == [ip |-> ip, bits |-> [i \in 1..keep |-> digit(i)]]
    IN  IF digit(keep + 1) = 1 /\ (sticky \/ digit(keep) = 1)
        THEN Increment(trunc)
        ELSE trunc

\* x <= y
FixLeq(x, y) ==
    LET xb(i) == IF i <= Len(x.bits) THEN x.bits[i] ELSE 0
        yb(i) == IF i <= Len(y.bits) THEN y.bits[i] ELSE 0
        n == IF Len(x.bits) >= Len(y.bits) THEN Len(x.bits) ELSE Len(y.bits)
        diff == {i \in 1..n : xb(i) # yb(i)}
    IN  \/ x.ip < y.ip
        \/ /\ x.ip = y.ip
           /\ \/ diff = {}
              \/ LET f == CHOOSE i \in diff : \A j \in diff : i <= j
                 IN  xb(f) < yb(f)

\* t <= 1 + extension_ratio as the doubles compare, for a foot exactly at 1 + E/L, L = line_length
UpperBoundTieHolds(L) ==
    LET q == FracBits(DUCT_EXTENSION_UNITS % L, L)
        extension_ratio == RoundToDouble(DUCT_EXTENSION_UNITS \div L, q.bits, q.rem)
        bound == RoundToDouble(1 + extension_ratio.ip, extension_ratio.bits, 0)
        t == RoundToDouble((L + DUCT_EXTENSION_UNITS) \div L, q.bits, q.rem)
    IN  FixLeq(t, bound)

\* -extension_ratio <= t <= 1 + extension_ratio, extension_ratio = DUCT_EXTENSION_UNITS / line_length:
\* multiplied by line_length_sq, -E * line_length <= dot and dot - line_length_sq <= E * line_length
IsExtended(dot, line_length_sq) ==
    LET over == dot - line_length_sq
    IN  /\ LeqTimesRoot(-dot, DUCT_EXTENSION_UNITS, line_length_sq)
        /\ \/ over <= 0
           \/ Sq(over) < Sq(DUCT_EXTENSION_UNITS) * line_length_sq
           \/ /\ Sq(over) = Sq(DUCT_EXTENSION_UNITS) * line_length_sq
              /\ UpperBoundTieHolds(over \div DUCT_EXTENSION_UNITS)

\* distance from point to closest = line_start + t * (line_end - line_start)
FootDistance(point, line_start, line_end) ==
    LET lsq == DistSq(line_start, line_end)
        dot == ProjDot(point, line_start, line_end)
    IN  [num |-> DistSq(point, line_start) * lsq - Sq(dot), den |-> lsq]

\* min(dist_to_start, dist_to_end)
EndpointDistance(point, line_start, line_end) ==
    LET ds == DistSq(point, line_start)
        de == DistSq(point, line_end)
    IN  [num |-> IF ds <= de THEN ds ELSE de, den |-> 1]

point_to_line_distance(point, line_start, line_end) ==
    LET line_length_sq == DistSq(line_start, line_end)
        dot == ProjDot(point, line_start, line_end)
    IN  IF line_length_sq = 0
        THEN DegenerateResult(point, line_start)
        ELSE IF IsActual(dot, line_length_sq)
        THEN [distance |-> FootDistance(point, line_start, line_end),
              intersection_type |-> "actual"]
        ELSE IF IsExtended(dot, line_length_sq)
        THEN [distance |-> FootDistance(point, line_start, line_end),
              intersection_type |-> "extended"]
        ELSE [distance |-> EndpointDistance(point, line_start, line_end),
              intersection_type |-> "none"]

----------------------------------------------------------------------------
(* extract_damper_coordinates, extract_duct_coordinates *)

\* a damper is kept when its coordinates hold at least 2 numbers
extract_damper_coordinates(dampers) ==
    LET kept == SelectSeq(dampers, LAMBDA r : Len(r.coords) >= 2)
    IN  [i \in 1..Len(kept) |-> [id |-> kept[i].id, point |-> kept[i].coords]]

\* a duct is kept when its coordinate list holds at least 2 points
extract_duct_coordinates(ducts) ==
    LET kept == SelectSeq(ducts, LAMBDA r : Len(r.coords) >= 2)
    IN  [i \in 1..Len(kept) |-> [id |-> kept[i].id, line |-> kept[i].coords]]

----------------------------------------------------------------------------
(* map_dampers_to_ducts: the candidate list *)

\* mutant: the classification of the segment is not looked at
Improves_AnyClass(r, acc) == DistLess(r.distance, acc.min_distance)

\* "if intersection_type != 'none' and distance < min_distance", r the segment's result
Improves(r, acc) ==
    r.intersection_type # "none" /\ DistLess(r.distance, acc.min_distance)

\* the loop over the segments of one duct, from segment i on, with
\* acc = [min_distance, best_intersection_type]
RECURSIVE SegmentLoop(_, _, _, _)
SegmentLoop(damper_point, duct_line_coords, i, acc) ==
    IF i > Len(duct_line_coords) - 1
    THEN acc
    ELSE LET r == point_to_line_distance(damper_point, duct_line_coords[i],
                                         duct_line_coords[i + 1])
         IN  SegmentLoop(damper_point, duct_line_coords, i + 1,
                 IF Improves(r, acc)
                 THEN [min_distance |-> r.distance,
                       best_intersection_type |-> r.intersection_type]
                 ELSE acc)

DuctLevel(damper_point, duct_line_coords) ==
    SegmentLoop(damper_point, duct_line_coords, 1,
                [min_distance |-> INF, best_intersection_type |-> "none"])

\* mutant: the threshold test is dropped
IsCandidate_NoThreshold(best) == best.best_intersection_type # "none"

\* if best_intersection_type != "none" and min_distance <= self.distance_threshold
IsCandidate(best) ==
    /\ best.best_intersection_type # "none"
    /\ DistLeqNum(best.min_distance, distance_threshold)

\* the (d_idx, duct_idx) pairs in the order the nested loops visit them
PairAt(k, nDucts) == [damper_idx |-> ((k - 1) \div nDucts) + 1,
                      duct_idx |-> ((k - 1) % nDucts) + 1]

BuildCandidates(dampers, ducts) ==
    LET nDucts == Len(ducts)
        all == [k \in 1..(Len(dampers) * nDucts) |->
                  LET pr == PairAt(k, nDucts)
                      best == DuctLevel(dampers[pr.damper_idx].point, ducts[pr.duct_idx].line)
                  IN  [intersection_type |-> best.best_intersection_type,
                       distance |-> best.min_distance,
                       damper_idx |-> pr.damper_idx,
                       duct_idx |-> pr.duct_idx,
                       keep |-> IsCandidate(best)]]
        kept == SelectSeq(all, LAMBDA c : c.keep)
    IN  [k \in 1..Len(kept) |->
            [intersection_type |-> kept[k].intersection_type,
             distance |-> kept[k].distance,
             damper_idx |-> kept[k].damper_idx,
             duct_idx |-> kept[k].duct_idx]]

----------------------------------------------------------------------------
(* map_dampers_to_ducts: sort_key and the stable sort *)

type_priority(intersection_type) == IF intersection_type = "actual" THEN 0 ELSE 1

\* mutant: the sort key is the distance alone
KeyLess_DistanceOnly(a, b) == DistLess(a.distance, b.distance)

\* sort_key(a) < sort_key(b), the keys being the tuples (type_priority, distance)
KeyLess(a, b) ==
    \/ type_priority(a.intersection_type) < type_priority(b.intersection_type)
    \/ /\ type_priority(a.intersection_type) = type_priority(b.intersection_type)
       /\ DistLess(a.distance, b.distance)

\* list.sort is stable: c goes behind every element whose key is not greater
InsertByKey(sorted, c) ==
    LET k == Cardinality({i \in 1..Len(sorted) : ~KeyLess(c, sorted[i])})
    IN  SubSeq(sorted, 1, k) \o << c >> \o SubSeq(sorted, k + 1, Len(sorted))

RECURSIVE SortFrom(_, _, _)
SortFrom(pairs, i, sorted) ==
    IF i > Len(pairs) THEN sorted
    ELSE SortFrom(pairs, i + 1, InsertByKey(sorted, pairs[i]))

SortCandidates(pairs) == SortFrom(pairs, 1, << >>)

----------------------------------------------------------------------------
(* map_dampers_to_ducts: the greedy scan *)

EmptyMapping == [d \in {} |-> NA]

\* mutant: the dict is not pre-seeded, keys appear only on assignment
InitialMapping_Unseeded(dampers) == EmptyMapping

\* {damper_id: 'NA' for damper_id, _ in damper_coords}
InitialMapping(dampers) == [d \in {dampers[i].id : i \in 1..Len(dampers)} |-> NA]

\* [False] * len(duct_coords)
InitialDuctUsed(ducts) == [j \in 1..Len(ducts) |-> FALSE]

\* mutant: the duct_used check is dropped
DuctAvailable_Always(used, duct_idx) == TRUE

\* "if duct_used[duct_idx]: continue" lets the candidate through when this holds
DuctAvailable(used, duct_idx) == ~used[duct_idx]

\* damper_to_duct_mapping[damper_id] = duct_id
DictSet(mapping, key, value) ==
    [d \in DOMAIN mapping \cup {key} |-> IF d = key THEN value ELSE mapping[d]]

NoOutcome == [kind |-> "pending", value |-> EmptyMapping]

\* value of l_result before the segment loop has run
NoLevel == [min_distance |-> INF, best_intersection_type |-> "unset"]

NoResult == [distance |-> INF, intersection_type |-> "pending"]

----------------------------------------------------------------------------
(* The run of main *)

Init ==
    /\ pc = "main"
    /\ cks_ducts = << >>
    /\ cks_dampers = << >>
    /\ damper_coords = << >>
    /\ duct_coords = << >>
    /\ candidate_pairs = << >>
    /\ scan_pos = 1
    /\ duct_used = << >>
    /\ damper_to_duct_mapping = EmptyMapping
    /\ pw_outcome = NoOutcome
    /\ main_result = EmptyMapping
    /\ g_point = <<0, 0>>
    /\ g_start = <<0, 0>>
    /\ g_end = <<0, 0>>
    /\ g_result = NoResult
    /\ l_point = <<0, 0>>
    /\ l_line = << >>
    /\ l_result = NoLevel

\* retrieve_data_from_cks returns (ducts, dampers)
RetrieveData ==
    /\ pc = "main"
    /\ \E nd \in 0..MaxDampers, nu \in 0..MaxDucts :
         \E dg \in [1..nd -> DamperGeoms], ug \in [1..nu -> DuctGeoms] :
            /\ cks_dampers' = [i \in 1..nd |-> [id |-> DamperIdPool[i], coords |-> dg[i]]]
            /\ cks_ducts' = [j \in 1..nu |-> [id |-> DuctIdPool[j], coords |-> ug[j]]]
    /\ pc' = "extract"
    /\ UNCHANGED << damper_coords, duct_coords, candidate_pairs, scan_pos, duct_used,
                    damper_to_duct_mapping, pw_outcome, main_result, geomVars >>

\* a CKS client call raises; retrieve_data_from_cks raises Exception("Failed to retrieve ...")
RetrieveFails ==
    /\ pc = "main"
    /\ pc' = "pw_except"
    /\ UNCHANGED << progVars, geomVars >>

\* process_worksheet's except clause: raise Exception("Failed to process worksheet ...")
ProcessWorksheetRaises ==
    /\ pc = "pw_except"
    /\ pw_outcome' = [kind |-> "raise", value |-> EmptyMapping]
    /\ pc' = "main_handle"
    /\ UNCHANGED << cks_ducts, cks_dampers, damper_coords, duct_coords, candidate_pairs,
                    scan_pos, duct_used, damper_to_duct_mapping, main_result, geomVars >>

\* process_worksheet: the two extract_* calls
ExtractCoordinates ==
    /\ pc = "extract"
    /\ damper_coords' = extract_damper_coordinates(cks_dampers)
    /\ duct_coords' = extract_duct_coordinates(cks_ducts)
    /\ pc' = "build"
    /\ UNCHANGED << cks_ducts, cks_dampers, candidate_pairs, scan_pos, duct_used,
                    damper_to_duct_mapping, pw_outcome, main_result, geomVars >>

\* map_dampers_to_ducts up to the greedy loop: candidates, sort, duct_used, the seeded dict
BuildAndSort ==
    /\ pc = "build"
    /\ candidate_pairs' = SortCandidates(BuildCandidates(damper_coords, duct_coords))
    /\ duct_used' = InitialDuctUsed(duct_coords)
    /\ damper_to_duct_mapping' = InitialMapping(damper_coords)
    /\ scan_pos' = 1
    /\ pc' = "scan"
    /\ UNCHANGED << cks_ducts, cks_dampers, damper_coords, duct_coords, pw_outcome,
                    main_result, geomVars >>

\* one iteration of the greedy loop: the duct is used, continue
ScanSkip ==
    /\ pc = "scan"
    /\ scan_pos <= Len(candidate_pairs)
    /\ ~DuctAvailable(duct_used, candidate_pairs[scan_pos].duct_idx)
    /\ scan_pos' = scan_pos + 1
    /\ UNCHANGED << pc, cks_ducts, cks_dampers, damper_coords, duct_coords, candidate_pairs,
                    duct_used, damper_to_duct_mapping, pw_outcome, main_result, geomVars >>

\* one iteration of the greedy loop: assign the damper to the duct
ScanAssign ==
    /\ pc = "scan"
    /\ scan_pos <= Len(candidate_pairs)
    /\ LET c == candidate_pairs[scan_pos]
           damper_id == damper_coords[c.damper_idx].id
           duct_id == duct_coords[c.duct_idx].id
       IN  /\ DuctAvailable(duct_used, c.duct_idx)
           /\ damper_to_duct_mapping' = DictSet(damper_to_duct_mapping, damper_id, duct_id)
           /\ duct_used' = [duct_used EXCEPT ![c.duct_idx] = TRUE]
    /\ scan_pos' = scan_pos + 1
    /\ UNCHANGED << pc, cks_ducts, cks_dampers, damper_coords, duct_coords, candidate_pairs,
                    pw_outcome, main_result, geomVars >>

\* the loop is over: map_dampers_to_ducts and process_worksheet return the dict
ReturnMapping ==
    /\ pc = "scan"
    /\ scan_pos > Len(candidate_pairs)
    /\ pw_outcome' = [kind |-> "return", value |-> damper_to_duct_mapping]
    /\ pc' = "main_handle"
    /\ UNCHANGED << cks_ducts, cks_dampers, damper_coords, duct_coords, candidate_pairs,
                    scan_pos, duct_used, damper_to_duct_mapping, main_result, geomVars >>

\* main: return damper_duct_mapping, or "except Exception: return {}"
MainReturn ==
    /\ pc = "main_handle"
    /\ main_result' = IF pw_outcome.kind = "return" THEN pw_outcome.value ELSE EmptyMapping
    /\ pc' = "done"
    /\ UNCHANGED << cks_ducts, cks_dampers, damper_coords, duct_coords, candidate_pairs,
                    scan_pos, duct_used, damper_to_duct_mapping, pw_outcome, geomVars >>

Next ==
    \/ RetrieveData
    \/ RetrieveFails
    \/ ProcessWorksheetRaises
    \/ ExtractCoordinates
    \/ BuildAndSort
    \/ ScanSkip
    \/ ScanAssign
    \/ ReturnMapping
    \/ MainReturn

Spec == Init /\ [][Next]_vars

----------------------------------------------------------------------------
(* One call of point_to_line_distance on bounded inputs *)

GeomInit ==
    /\ pc = "geom_call"
    /\ cks_ducts = << >>
    /\ cks_dampers = << >>
    /\ damper_coords = << >>
    /\ duct_coords = << >>
    /\ candidate_pairs = << >>
    /\ scan_pos = 1
    /\ duct_used = << >>
    /\ damper_to_duct_mapping = EmptyMapping
    /\ pw_outcome = NoOutcome
    /\ main_result = EmptyMapping
    /\ g_point \in (-PtMax..PtMax) \X (-PtMax..PtMax)
    /\ g_start \in SegPts
    /\ g_end \in SegPts
    /\ g_result = NoResult
    /\ l_point = <<0, 0>>
    /\ l_line = << >>
    /\ l_result = NoLevel

PointToLineDistanceCall ==
    /\ pc = "geom_call"
    /\ g_result' = point_to_line_distance(g_point, g_start, g_end)
    /\ pc' = "geom_done"
    /\ UNCHANGED << progVars, g_point, g_start, g_end, l_point, l_line, l_result >>

GeomNext == PointToLineDistanceCall

GeomSpec == GeomInit /\ [][GeomNext]_vars

----------------------------------------------------------------------------
(* One pass of the segment loop of map_dampers_to_ducts: one damper, one duct *)

\* vertices of the polylines
PolyPts == { <<0, 0>>, <<5, 0>>, <<5, 9>>, <<0, 7>> }

Polylines == UNION { [1..n -> PolyPts] : n \in 2..MaxPolyPoints }

LevelInit ==
    /\ pc = "level_call"
    /\ cks_ducts = << >>
    /\ cks_dampers = << >>
    /\ damper_coords = << >>
    /\ duct_coords = << >>
    /\ candidate_pairs = << >>
    /\ scan_pos = 1
    /\ duct_used = << >>
    /\ damper_to_duct_mapping = EmptyMapping
    /\ pw_outcome = NoOutcome
    /\ main_result = EmptyMapping
    /\ g_point = <<0, 0>>
    /\ g_start = <<0, 0>>
    /\ g_end = <<0, 0>>
    /\ g_result = NoResult
    /\ l_point \in (-LevelPtMax..LevelPtMax) \X (-LevelPtMax..LevelPtMax)
    /\ l_line \in Polylines
    /\ l_result = NoLevel

\* the body of "for duct_idx, ..." up to the threshold test, for one damper and one duct
SegmentLoopPass ==
    /\ pc = "level_call"
    /\ l_result' = DuctLevel(l_point, l_line)
    /\ pc' = "level_done"
    /\ UNCHANGED << progVars, g_point, g_start, g_end, g_result, l_point, l_line >>

LevelNext == SegmentLoopPass

LevelSpec == LevelInit /\ [][LevelNext]_vars

----------------------------------------------------------------------------
(* Vocabulary of the properties *)

\* the greedy loop has started: the dict and duct_used exist
InMapping == pc \in {"scan", "main_handle", "done"} /\ pw_outcome.kind # "raise"

\* map_dampers_to_ducts has returned
Returned == pw_outcome.kind = "return"

DamperIdx == 1..Len(damper_coords)

DuctIdx == 1..Len(duct_coords)

DamperIdSet == {damper_coords[i].id : i \in DamperIdx}

DuctIdSet == {duct_coords[j].id : j \in DuctIdx}

MappedTo(i) == damper_to_duct_mapping[damper_coords[i].id]

\* the ducts damper i has a candidate for
CandidateDucts(i) ==
    {candidate_pairs[k].duct_idx :
        k \in {n \in 1..Len(candidate_pairs) : candidate_pairs[n].damper_idx = i}}

\* the candidate of damper i and duct j
CandidateOf(i, j) ==
    candidate_pairs[CHOOSE k \in 1..Len(candidate_pairs) :
                        /\ candidate_pairs[k].damper_idx = i
                        /\ candidate_pairs[k].duct_idx = j]

\* (classificationPriority, distance) of a is smaller than that of b, actual = 0 < extended = 1
RanksBefore(a, b) ==
    \/ a.intersection_type = "actual" /\ b.intersection_type = "extended"
    \/ /\ a.intersection_type = b.intersection_type
       /\ a.distance.num * b.distance.den < b.distance.num * a.distance.den

\* some segment of the line classifies other than 'none' at a distance <= n: the duct-level
\* classification is not 'none' and the duct-level distance (the least such distance) is <= n
WithinOnSomeSegment(point, line, n) ==
    \E k \in 1..(Len(line) - 1) :
        LET r == point_to_line_distance(point, line[k], line[k + 1])
        IN  /\ r.intersection_type \in {"actual", "extended"}
            /\ r.distance.num <= n * n * r.distance.den

Eligible(i, j) ==
    WithinOnSomeSegment(damper_coords[i].point, duct_coords[j].line, distance_threshold)

\* the position in the sorted list of the first candidate of damper i (0: none)
BestPos(i) ==
    LET own == {k \in 1..Len(candidate_pairs) : candidate_pairs[k].damper_idx = i}
    IN  IF own = {} THEN 0 ELSE CHOOSE k \in own : \A m \in own : k <= m

NoSharedDuct(m) ==
    \A d1, d2 \in DOMAIN m : (d1 # d2 /\ m[d1] # NA /\ m[d2] # NA) => m[d1] # m[d2]

----------------------------------------------------------------------------
(* C1 *)

----------------------------------------------------------------------------
(* C2 *)

\* C2: during the greedy scan, once a damper's mapping value has been set to a duct,
\* no later candidate changes it (a damper receives at most one assignment).
C2_AssignedAtMostOnce ==
    [][(pc = "scan" /\ pc' = "scan") =>
          \A d \in DOMAIN damper_to_duct_mapping :
              damper_to_duct_mapping[d] # NA =>
                  damper_to_duct_mapping'[d] = damper_to_duct_mapping[d]]_vars

----------------------------------------------------------------------------
(* C3 *)

IsTotalOnDampers(m) ==
    /\ DOMAIN m = DamperIdSet
    /\ \A d \in DOMAIN m : m[d] = NA \/ m[d] \in DuctIdSet

\* C3: in every state of the greedy scan and in the result, the keys of the mapping are
\* exactly the supplied damper ids and every value is 'NA' or the id of a supplied duct.
C3_TotalFunctionOnDampers ==
    /\ InMapping => IsTotalOnDampers(damper_to_duct_mapping)
    /\ Returned => IsTotalOnDampers(pw_outcome.value)
    /\ (pc = "done" /\ Returned) => IsTotalOnDampers(main_result)

\* in the middle of the scan, one damper assigned and another still 'NA'
C3_Witness ==
    /\ pc = "scan"
    /\ scan_pos > 1
    /\ scan_pos <= Len(candidate_pairs)
    /\ \E i1, i2 \in DamperIdx : MappedTo(i1) # NA /\ MappedTo(i2) = NA

----------------------------------------------------------------------------
(* C4 *)

\* dampers i1 and i2 each have exactly one candidate, duct j, and i1's ranks first
OnlyRivalsFor(i1, i2, j) ==
    /\ i1 # i2
    /\ CandidateDucts(i1) = {j}
    /\ CandidateDucts(i2) = {j}
    /\ RanksBefore(CandidateOf(i1, j), CandidateOf(i2, j))

\* C4 as claimed: when two dampers each have exactly one candidate and it is the same
\* duct, the duct goes to the damper whose candidate is smaller in
\* (classificationPriority, distance), actual before extended, and the other damper
\* maps to 'NA'.
C4_BetterRankedRivalWins ==
    Returned =>
        \A i1, i2 \in DamperIdx : \A j \in DuctIdx :
            OnlyRivalsFor(i1, i2, j) =>
                /\ pw_outcome.value[damper_coords[i1].id] = duct_coords[j].id
                /\ pw_outcome.value[damper_coords[i2].id] = NA

\* a third damper has a candidate for duct j that stands before the candidate of i1 in
\* the sorted list
ThirdDamperFirst(i1, i2, j) ==
    \E k \in 1..Len(candidate_pairs) :
        /\ candidate_pairs[k].duct_idx = j
        /\ candidate_pairs[k].damper_idx \notin {i1, i2}
        /\ \A n \in 1..k : candidate_pairs[n].damper_idx # i1

\* C4 as amended: when two dampers each have exactly one candidate and it is the same
\* duct, the damper whose candidate ranks second maps to 'NA', and the damper whose
\* candidate ranks first gets the duct unless a third damper's candidate for that duct
\* stands earlier in the sorted list, in which case it maps to 'NA' too.
C4_BetterRankedRivalWinsUnlessThird ==
    Returned =>
        \A i1, i2 \in DamperIdx : \A j \in DuctIdx :
            OnlyRivalsFor(i1, i2, j) =>
                /\ pw_outcome.value[damper_coords[i2].id] = NA
                /\ pw_outcome.value[damper_coords[i1].id] =
                      IF ThirdDamperFirst(i1, i2, j) THEN NA ELSE duct_coords[j].id

\* an actual candidate won over an extended one of smaller distance
C4_Witness ==
    /\ pc = "done"
    /\ \E i1, i2 \in DamperIdx : \E j \in DuctIdx :
          /\ OnlyRivalsFor(i1, i2, j)
          /\ CandidateOf(i1, j).intersection_type = "actual"
          /\ CandidateOf(i2, j).intersection_type = "extended"
          /\ DistLess(CandidateOf(i2, j).distance, CandidateOf(i1, j).distance)
          /\ main_result[damper_coords[i1].id] = duct_coords[j].id
          /\ main_result[damper_coords[i2].id] = NA

----------------------------------------------------------------------------
(* C5 *)

\* C5: a damper is mapped to a duct only if the pair is eligible (duct-level
\* classification not 'none', duct-level distance <= distance_threshold, inclusive);
\* a damper with no eligible pair, and every damper when there is no duct, ends 'NA',
\* and map_dampers_to_ducts returns normally.
C5_MappedOnlyIfEligible ==
    /\ InMapping =>
          \A i \in DamperIdx :
              MappedTo(i) # NA =>
                  \E j \in DuctIdx : duct_coords[j].id = MappedTo(i) /\ Eligible(i, j)
    /\ pc = "done" =>
          \/ pw_outcome.kind = "raise" /\ cks_dampers = << >> /\ cks_ducts = << >>
          \/ /\ Returned
             /\ \A i \in DamperIdx :
                   (\A j \in DuctIdx : ~Eligible(i, j)) => main_result[damper_coords[i].id] = NA

\* a damper mapped to a duct lying at exactly the threshold distance
C5_Witness ==
    /\ pc = "done"
    /\ \E i \in DamperIdx : \E j \in DuctIdx :
          /\ main_result[damper_coords[i].id] = duct_coords[j].id
          /\ Eligible(i, j)
          /\ ~WithinOnSomeSegment(damper_coords[i].point, duct_coords[j].line,
                                  distance_threshold - 1)
          /\ LET c == CandidateOf(i, j)
             IN  c.distance.num = Sq(distance_threshold) * c.distance.den

----------------------------------------------------------------------------
(* C6 *)

\* the duct of the best-ranked candidate of damper i
BestDuct(i) == candidate_pairs[BestPos(i)].duct_idx

\* dampers i1 and i2 have the same best eligible duct, j
SameBestDuct(i1, i2, j) ==
    /\ i1 # i2
    /\ BestPos(i1) # 0
    /\ BestPos(i2) # 0
    /\ BestDuct(i1) = j
    /\ BestDuct(i2) = j

----------------------------------------------------------------------------
(* C7 *)

\* what main returns after a successful run over a worksheet with no dampers:
\* map_dampers_to_ducts([], ducts) has no candidate and returns the seeded dict
EmptyWorksheetResult == InitialMapping(extract_damper_coordinates(<< >>))

\* C7: the outcome of a run whose retrieval failed is never equal to the outcome of a
\* successful run over a worksheet with no dampers.
C7_RetrievalFailureDistinct ==
    (pc = "done" /\ pw_outcome.kind = "raise") => main_result # EmptyWorksheetResult

----------------------------------------------------------------------------
(* C8 *)

\* the squared lengths of the segments drawn
SegLengthsSq == {DistSq(a, b) : a \in SegPts, b \in SegPts}

\* floor(E * L) for a segment of squared length n, E the extension budget
ExtensionReach ==
    [n \in SegLengthsSq |->
        CHOOSE r \in 0..(DUCT_EXTENSION_UNITS * n) :
            Sq(r) <= Sq(DUCT_EXTENSION_UNITS) * n /\ Sq(DUCT_EXTENSION_UNITS) * n < Sq(r + 1)]

\* The class the claim gives a point whose projection parameter is t = dot / L^2.  dot is
\* an integer, so 0 <= t <= 1 is dot \in 0..L^2 and -E/L <= t <= 1 + E/L is
\* dot \in -floor(E*L) .. L^2 + floor(E*L).
ClaimedClass(dot, lsq) ==
    IF dot \in 0..lsq THEN "actual"
    ELSE IF dot \in (0 - ExtensionReach[lsq])..(lsq + ExtensionReach[lsq]) THEN "extended"
    ELSE "none"

\* C8: for a non-degenerate segment, point_to_line_distance classifies 'actual' exactly
\* when 0 <= t <= 1, 'extended' exactly when t is outside [0,1] and
\* -E/L <= t <= 1 + E/L (bounds included), and 'none' otherwise.
C8_ClassificationByT ==
    (pc = "geom_done" /\ g_start # g_end) =>
        g_result.intersection_type =
            ClaimedClass(ProjDot(g_point, g_start, g_end), DistSq(g_start, g_end))

----------------------------------------------------------------------------
(* C9 *)

\* C9: for a degenerate segment (line_start = line_end), point_to_line_distance returns
\* 'actual' and the Euclidean distance from the point to that coordinate (here its
\* square), and raises nothing.
C9_DegenerateSegmentIsPoint ==
    (pc = "geom_done" /\ g_start = g_end) =>
        /\ g_result.intersection_type = "actual"
        /\ g_result.distance.den = 1
        /\ g_result.distance.num =
              (g_point[1] - g_end[1]) * (g_point[1] - g_end[1])
                + (g_point[2] - g_end[2]) * (g_point[2] - g_end[2])

\* a degenerate segment and a point off it
C9_Witness ==
    /\ pc = "geom_done"
    /\ g_start = g_end
    /\ g_point # g_start
    /\ g_result.intersection_type = "actual"
    /\ g_result.distance.num > 0

----------------------------------------------------------------------------
(* C10 *)

\* C10: in the result there is never a candidate (damper, duct) whose damper is 'NA'
\* while its duct is the value of no damper.
C10_NoCandidateLeftForFreeDuct ==
    Returned =>
        \A k \in 1..Len(candidate_pairs) :
            LET c == candidate_pairs[k]
            IN  pw_outcome.value[damper_coords[c.damper_idx].id] = NA =>
                    \E d \in DOMAIN pw_outcome.value :
                        pw_outcome.value[d] = duct_coords[c.duct_idx].id

----------------------------------------------------------------------------
(* C11 *)

\* result of point_to_line_distance on segment k of the polyline of the pass
SegmentResult(k) == point_to_line_distance(l_point, l_line[k], l_line[k + 1])

\* segments whose classification is not 'none'
UsableSegments ==
    { k \in 1..(Len(l_line) - 1) : SegmentResult(k).intersection_type # "none" }

SameDistance(a, b) == ~DistLess(a, b) /\ ~DistLess(b, a)

\* C11: after the segment loop for a damper and a duct, the duct-level classification
\* is 'none' exactly when every segment classifies 'none'; otherwise the duct-level
\* distance is the least distance among the segments not classified 'none', and the
\* duct-level classification is that of a segment attaining it.
C11_DuctLevelIsMinOverUsableSegments ==
    pc = "level_done" =>
        /\ (l_result.best_intersection_type = "none") <=> (UsableSegments = {})
        /\ UsableSegments # {} =>
              /\ \A m \in UsableSegments :
                     ~DistLess(SegmentResult(m).distance, l_result.min_distance)
              /\ \E k \in UsableSegments :
                     /\ SameDistance(SegmentResult(k).distance, l_result.min_distance)
                     /\ SegmentResult(k).intersection_type = l_result.best_intersection_type

\* a 'none' segment reports a smaller distance than the duct-level distance, which
\* comes from another segment
C11_Witness ==
    /\ pc = "level_done"
    /\ l_result.best_intersection_type # "none"
    /\ \E k \in 1..(Len(l_line) - 1) :
          /\ SegmentResult(k).intersection_type = "none"
          /\ DistLess(SegmentResult(k).distance, l_result.min_distance)

============================================================================
